---- MODULE Spec2Model ----
(***************************************************************************)
(* State-machine model of the GPT training / generation code in            *)
(* src/codebase.py: autoregressive decoding (generate_text,                *)
(* top_p_filtering), the language model's layout contracts (forward,       *)
(* masked_loss, training_step), the dataset split (__getitem__) and the    *)
(* warmup-cosine learning-rate scheduler.                                  *)
(*                                                                         *)
(* Numeric conventions.  Floating point is replaced by exact arithmetic:   *)
(*   - a logit is an integer l and softmax uses base 2, so the softmax     *)
(*     weight of l is 2^l and probabilities are the rationals 2^l / W;     *)
(*     filter_value (-inf) has weight 0;                                   *)
(*   - top_p is a pair <<num, den>>;                                       *)
(*   - learning rates are in units of 1e-7 and scales in 1/1000.           *)
(* The transformer's numeric output is an unknown function of its input:   *)
(* forward returns, for every (position, batch element), the identity      *)
(* <<b, s>> of that logit row, and the values of a row are chosen when the *)
(* row is read.                                                            *)
(***************************************************************************)
EXTENDS Integers, Sequences, FiniteSets, TLC

VARIABLES
    pc,               \* position of the running operation
    sequence_length,  \* hparam: model.sequence_length = positional max_len
    \* ---- generate_text ----
    input_text,       \* prompt text (sequence of characters)
    input_ids,        \* growing token sequence (the single batch element)
    i,                \* loop counter of `for i in range(model.sequence_length)`
    forward_calls,    \* number of invocations of model.forward
    forward_len,      \* current_seq_length of the latest forward invocation
    outputs,          \* result of the latest forward: [s][b] -> row identity
    logits_row,       \* identity <<b, s>> of the row read at line 507
    logits,           \* the temperature-scaled row (input of top_p_filtering)
    top_p,            \* nucleus threshold <<num, den>>
    sorted_indices,   \* permutation produced by torch.sort
    filtered_logits,  \* result of top_p_filtering
    next_token,       \* the sampled token (-1: none yet)
    generated_text,   \* value returned by generate_text
    error,            \* exception that ended the operation ("" : none)
    \* ---- dataset / training step ----
    batch_size,       \* hparam: batch size
    line,             \* the token line read by __getitem__
    item,             \* the (input, target, mask) triple it returns
    batch,            \* items fetched for the batch being assembled
    inputs,           \* collated batch, shape (batch, seq_len)
    targets,
    masks,
    loss,             \* what masked_loss returned
    logged,           \* name under which the loss was logged
    heads,            \* hparam: number of attention heads
    num_layers,       \* hparam: number of transformer blocks
    layer_masks,      \* the attention mask each layer received in forward
    \* ---- optimizer / scheduler ----
    dataset_length,   \* number of lines of the training file
    max_epochs,       \* hparam
    total_steps,
    warmup_steps,
    last_epoch,       \* the scheduler's step counter t
    lr                \* learning rate set by the scheduler (units of 1e-7)

genVars == <<input_text, input_ids, i, forward_calls, forward_len, outputs,
             logits_row, logits, top_p, sorted_indices, filtered_logits,
             next_token, generated_text, error>>

trainVars == <<line, item, batch, inputs, targets, masks, loss, logged,
               heads, num_layers, layer_masks>>

lrVars == <<dataset_length, max_epochs, total_steps, warmup_steps, last_epoch, lr>>

vars == <<pc, sequence_length, batch_size, genVars, trainVars, lrVars>>

----------------------------------------------------------------------------
(* Bounds of the model *)
MaxText == 2
MaxSeqLen == 3
MaxLogit == 1
MaxBatch == 2
MaxDataset == 12
MaxEpochs == 2
MaxHeads == 2
MaxLayers == 2

(* Program constants *)
eot_token == 2
padding_token == 0
temperature == 1
filter_value == -1
base_lr == 10000
min_lr == 10

Vocab == 0..eot_token
Chars == {" ", "a", "?"}

SeqsUpTo(S, n) == UNION {[1..k -> S] : k \in 0..n}

Min(S) == CHOOSE x \in S : \A y \in S : x <= y

----------------------------------------------------------------------------
(* str.strip() *)
RECURSIVE LStrip(_)
LStrip(t) == IF t = <<>> THEN t
             ELSE IF Head(t) = " " THEN LStrip(Tail(t)) ELSE t

RECURSIVE RStrip(_)
RStrip(t) == IF t = <<>> THEN t
             ELSE IF t[Len(t)] = " " THEN RStrip(SubSeq(t, 1, Len(t) - 1)) ELSE t

Strip(t) == RStrip(LStrip(t))

(* The tokenizer collaborator, as a character-level tokenizer: " " is token *)
(* 0, "a" is token 1, and "?" has no token (it is dropped).                 *)
RECURSIVE Encode(_)
Encode(t) == IF t = <<>> THEN <<>>
             ELSE IF Head(t) = "?" THEN Encode(Tail(t))
             ELSE <<(IF Head(t) = "a" THEN 1 ELSE 0)>> \o Encode(Tail(t))

TokenText(tok) == IF tok = eot_token THEN "<|endoftext|>"
                  ELSE IF tok = 1 THEN "a" ELSE " "

Decode(ids) == [k \in 1..Len(ids) |-> TokenText(ids[k])]

(* Python indexing: k >= 0 counts from the front, k < 0 from the back *)
PyIndex(s, k) == IF k >= 0 THEN s[k + 1] ELSE s[Len(s) + 1 + k]

----------------------------------------------------------------------------
(* GPTModel.forward on a batch x of shape (batch, seq_len).                 *)
(* x + pos_embbedings[:, :n, :] adds a (1, n, E) tensor to a (1, min(n,L),  *)
(* E) slice: for n > L the shapes broadcast only when L = 1, otherwise the  *)
(* add raises.  The result is sequence-major: out[s][b].                    *)
ForwardFails(x, L) == Len(x[1]) > L /\ L # 1

Forward(x) == [s \in 1..Len(x[1]) |-> [b \in 1..Len(x) |-> <<b, s>>]]

----------------------------------------------------------------------------
(* top_p_filtering *)
Exp2(l) == IF l = filter_value THEN 0 ELSE 2^l

RECURSIVE SumW(_, _, _)
SumW(lg, p, j) == IF j = 0 THEN 0 ELSE Exp2(lg[p[j]]) + SumW(lg, p, j - 1)

Perms(S) == {p \in [1..Cardinality(S) -> S] : \A t \in S : \E j \in DOMAIN p : p[j] = t}

(* torch.sort(logits, descending=True): the order of equal logits is not fixed *)
SortDescending(lg) ==
    {p \in Perms(DOMAIN lg) : \A j, k \in DOMAIN p : j < k => lg[p[j]] >= lg[p[k]]}

(* cumulative_probs[j] > top_p, with cumulative_probs[j] = SumW(j) / SumW(n) *)
AboveThreshold(lg, p, j, tp) == SumW(lg, p, j) * tp[2] > tp[1] * SumW(lg, p, Len(p))

TopPFiltering_NoShift(lg, p, tp) ==
    LET remove == [j \in DOMAIN p |-> IF j = 1 THEN FALSE ELSE AboveThreshold(lg, p, j, tp)]
        indices_to_remove == {p[j] : j \in {k \in DOMAIN p : remove[k]}}
    IN  [t \in DOMAIN lg |-> IF t \in indices_to_remove THEN filter_value ELSE lg[t]]

TopPFiltering(lg, p, tp) ==
    LET remove == [j \in DOMAIN p |-> AboveThreshold(lg, p, j, tp)]
        shifted == [j \in DOMAIN p |-> IF j = 1 THEN FALSE ELSE remove[j - 1]]
        indices_to_remove == {p[j] : j \in {k \in DOMAIN p : shifted[k]}}
    IN  [t \in DOMAIN lg |-> IF t \in indices_to_remove THEN filter_value ELSE lg[t]]

(* tokens with non-zero probability under softmax(filtered_logits) *)
Support(fl) == {t \in DOMAIN fl : Exp2(fl[t]) > 0}

----------------------------------------------------------------------------
(* Values of the variables an operation does not use *)
NoLogits == [t \in Vocab |-> 0]

NoItem == [input |-> <<>>, target |-> <<>>, mask |-> <<>>]

NoLoss == [pairs |-> <<>>, value |-> "none"]

GenIdle ==
    /\ input_text = <<>>
    /\ input_ids = <<>>
    /\ i = 0
    /\ forward_calls = 0
    /\ forward_len = 0
    /\ outputs = <<>>
    /\ logits_row = <<>>
    /\ logits = NoLogits
    /\ top_p = <<0, 1>>
    /\ sorted_indices = <<>>
    /\ filtered_logits = NoLogits
    /\ next_token = -1
    /\ generated_text = <<>>
    /\ error = ""

TrainIdle ==
    /\ line = <<>>
    /\ item = NoItem
    /\ batch = <<>>
    /\ inputs = <<>>
    /\ targets = <<>>
    /\ masks = <<>>
    /\ loss = NoLoss
    /\ logged = ""
    /\ heads = 1
    /\ num_layers = 1
    /\ layer_masks = <<>>

LRIdle ==
    /\ dataset_length = 0
    /\ max_epochs = 0
    /\ total_steps = 0
    /\ warmup_steps = 0
    /\ last_epoch = -1
    /\ lr = 0

----------------------------------------------------------------------------
(* generate_text(input_text, tokenizer, model, temperature=1.0, top_p=0.9)  *)
DefaultTopP == <<9, 10>>

LogitRows == [Vocab -> 0..MaxLogit]

(* `not input_text.strip()` *)
IsBlank_NoStrip(text) == text = <<>>

IsBlank(text) == Strip(text) = <<>>

(* outputs[0, -1, :] *)
LastLogits(out) == PyIndex(PyIndex(out, 0), -1)

(* lines 515-521: break on eot_token, otherwise torch.cat the new token *)
NextIds_AppendFirst(ids, tok) == Append(ids, tok)

NextIds(ids, tok) == IF tok = eot_token THEN ids ELSE Append(ids, tok)

GenInit ==
    /\ pc = "start"
    /\ sequence_length \in 1..MaxSeqLen
    /\ input_text \in SeqsUpTo(Chars, MaxText)
    /\ input_ids = <<>>
    /\ i = 0
    /\ forward_calls = 0
    /\ forward_len = 0
    /\ outputs = <<>>
    /\ logits_row = <<>>
    /\ logits = NoLogits
    /\ top_p = DefaultTopP
    /\ sorted_indices = <<>>
    /\ filtered_logits = NoLogits
    /\ next_token = -1
    /\ generated_text = <<>>
    /\ error = ""
    /\ batch_size = 1
    /\ TrainIdle
    /\ LRIdle

(* lines 488-498: the two input checks and the tokenization *)
GenStart ==
    /\ pc = "start"
    /\ IF IsBlank(input_text)
         THEN /\ pc' = "raised"
              /\ error' = "ValueError: Input text is empty"
              /\ input_ids' = input_ids
         ELSE IF Encode(input_text) = <<>>
                THEN /\ pc' = "raised"
                     /\ error' = "ValueError: Input text could not be tokenized"
                     /\ input_ids' = input_ids
                ELSE /\ pc' = "loop"
                     /\ error' = error
                     /\ input_ids' = Encode(input_text)
    /\ UNCHANGED <<sequence_length, batch_size, trainVars, lrVars, input_text, i, forward_calls, forward_len,
                   outputs, logits_row, logits, top_p, sorted_indices,
                   filtered_logits, next_token, generated_text>>

(* lines 505-506: one more iteration; outputs = model(input_ids) *)
GenForward ==
    /\ pc = "loop"
    /\ i < sequence_length
    /\ forward_calls' = forward_calls + 1
    /\ forward_len' = Len(input_ids)
    /\ IF ForwardFails(<<input_ids>>, sequence_length)
         THEN /\ pc' = "raised"
              /\ error' = "RuntimeError: tensor sizes must match"
              /\ outputs' = outputs
         ELSE /\ pc' = "sample"
              /\ error' = error
              /\ outputs' = Forward(<<input_ids>>)
    /\ UNCHANGED <<sequence_length, batch_size, trainVars, lrVars, input_text, input_ids, i, logits_row,
                   logits, top_p, sorted_indices, filtered_logits, next_token,
                   generated_text>>

(* lines 507-521: read a row, scale, filter, sample, test for eot, append.  *)
(* The row's values, the sort order and the filtered row are locals of the  *)
(* iteration; only the sampled token outlives it.                           *)
GenSample ==
    /\ pc = "sample"
    /\ logits_row' = LastLogits(outputs)
    /\ \E row \in LogitRows :
         LET lg == [t \in Vocab |-> row[t] \div temperature]
         IN  \E p \in SortDescending(lg) :
                next_token' \in Support(TopPFiltering(lg, p, top_p))
    /\ input_ids' = NextIds(input_ids, next_token')
    /\ IF next_token' = eot_token
         THEN pc' = "decode" /\ i' = i
         ELSE pc' = "loop" /\ i' = i + 1
    /\ UNCHANGED <<sequence_length, batch_size, trainVars, lrVars, input_text, forward_calls, forward_len,
                   outputs, logits, top_p, sorted_indices, filtered_logits,
                   generated_text, error>>

(* line 505: range(model.sequence_length) is exhausted *)
GenLoopEnd ==
    /\ pc = "loop"
    /\ i >= sequence_length
    /\ pc' = "decode"
    /\ UNCHANGED <<sequence_length, batch_size, genVars, trainVars, lrVars>>

(* lines 523-525 *)
GenDecode ==
    /\ pc = "decode"
    /\ generated_text' = Decode(input_ids)
    /\ pc' = "done"
    /\ UNCHANGED <<sequence_length, batch_size, trainVars, lrVars, input_text, input_ids, i, forward_calls,
                   forward_len, outputs, logits_row, logits, top_p,
                   sorted_indices, filtered_logits, next_token, error>>

GenNext == GenStart \/ GenForward \/ GenSample \/ GenLoopEnd \/ GenDecode

SpecGen == GenInit /\ [][GenNext]_vars

----------------------------------------------------------------------------
(* top_p_filtering called on its own, over bounded logits and thresholds.   *)
(* `logits` keeps the argument as passed; the tensor the function writes    *)
(* into and returns is `filtered_logits`.                                   *)
TopPs == {<<k, 10>> : k \in 0..10}

TopPInit ==
    /\ pc = "topp_call"
    /\ sequence_length = 1
    /\ batch_size = 1
    /\ input_text = <<>>
    /\ input_ids = <<>>
    /\ i = 0
    /\ forward_calls = 0
    /\ forward_len = 0
    /\ outputs = <<>>
    /\ logits_row = <<>>
    /\ logits \in LogitRows
    /\ top_p \in TopPs
    /\ sorted_indices = <<>>
    /\ filtered_logits = NoLogits
    /\ next_token = -1
    /\ generated_text = <<>>
    /\ error = ""
    /\ TrainIdle
    /\ LRIdle

TopPCall ==
    /\ pc = "topp_call"
    /\ sorted_indices' \in SortDescending(logits)
    /\ filtered_logits' = TopPFiltering(logits, sorted_indices', top_p)
    /\ pc' = "topp_ret"
    /\ UNCHANGED <<sequence_length, batch_size, trainVars, lrVars, input_text,
                   input_ids, i, forward_calls, forward_len, outputs,
                   logits_row, logits, top_p, next_token, generated_text, error>>

TopPNext == TopPCall

SpecTopP == TopPInit /\ [][TopPNext]_vars

----------------------------------------------------------------------------
(* TokenizedTextDataset.__getitem__ *)
Lines == SeqsUpTo(Vocab, MaxSeqLen + 1)

(* lines 54-58 *)
PadOrTruncate_NoTruncate(seq, S) ==
    IF Len(seq) < S
      THEN seq \o [k \in 1..(S - Len(seq)) |-> padding_token]
      ELSE seq

PadOrTruncate(seq, S) ==
    IF Len(seq) < S
      THEN seq \o [k \in 1..(S - Len(seq)) |-> padding_token]
      ELSE SubSeq(seq, 1, S)

(* line 61 *)
AttentionMask(seq) == [k \in 1..Len(seq) |-> IF seq[k] # padding_token THEN 1 ELSE 0]

(* lines 63-67: sequence[:-1], sequence[1:], attention_mask[:-1] *)
GetItem(ln, S) ==
    LET sequence == PadOrTruncate(ln, S)
        attention_mask == AttentionMask(sequence)
    IN  [input  |-> SubSeq(sequence, 1, Len(sequence) - 1),
         target |-> SubSeq(sequence, 2, Len(sequence)),
         mask   |-> SubSeq(attention_mask, 1, Len(attention_mask) - 1)]

DataInit ==
    /\ pc = "getitem"
    /\ sequence_length \in 1..MaxSeqLen
    /\ batch_size = 1
    /\ line \in Lines
    /\ item = NoItem
    /\ batch = <<>>
    /\ inputs = <<>>
    /\ targets = <<>>
    /\ masks = <<>>
    /\ loss = NoLoss
    /\ logged = ""
    /\ heads = 1
    /\ num_layers = 1
    /\ layer_masks = <<>>
    /\ GenIdle
    /\ LRIdle

DataGetItem ==
    /\ pc = "getitem"
    /\ item' = GetItem(line, sequence_length)
    /\ pc' = "item"
    /\ UNCHANGED <<sequence_length, batch_size, genVars, lrVars, line, batch,
                   inputs, targets, masks, loss, logged, heads, num_layers,
                   layer_masks>>

DataNext == DataGetItem

SpecData == DataInit /\ [][DataNext]_vars

----------------------------------------------------------------------------
(* DataLoader + collate_fn + GPTModel.training_step / validation_step       *)
LineTokens == {padding_token, 1}

BatchLines == SeqsUpTo(LineTokens, MaxSeqLen + 1)

Max(S) == CHOOSE x \in S : \A y \in S : x >= y

(* pad_sequence(seqs, batch_first=True, padding_value=0) *)
PadSequence(seqs) ==
    LET n == Max({Len(seqs[b]) : b \in DOMAIN seqs})
    IN  [b \in DOMAIN seqs |-> seqs[b] \o [k \in 1..(n - Len(seqs[b])) |-> 0]]

(* tensor.view(-1) / view(-1, vocab_size): the rows of the outermost        *)
(* dimension laid end to end                                                *)
RECURSIVE Flatten(_)
Flatten(t) == IF t = <<>> THEN <<>> ELSE Head(t) \o Flatten(Tail(t))

(* flat[mask]: the entries of flat at the indices where mask is True *)
RECURSIVE BoolSelect(_, _)
BoolSelect(flat, m) ==
    IF flat = <<>> THEN <<>>
    ELSE (IF Head(m) THEN <<Head(flat)>> ELSE <<>>) \o BoolSelect(Tail(flat), Tail(m))

(* F.cross_entropy(input, target) with the default mean reduction: the mean *)
(* over zero rows is NaN, and nothing is raised                             *)
CrossEntropy(rows, tgts) ==
    [pairs |-> [k \in 1..Len(rows) |-> <<rows[k], tgts[k]>>],
     value |-> IF Len(rows) = 0 THEN "nan" ELSE "finite"]

(* GPTModel.masked_loss *)
MaskedLoss(outs, tgts, msks) ==
    LET outputs_flat == Flatten(outs)
        targets_flat == Flatten(tgts)
        flatmask == Flatten(msks)
        mask == [k \in 1..Len(flatmask) |-> flatmask[k] = 1]
        outputs_masked == BoolSelect(outputs_flat, mask)
        targets_masked == BoolSelect(targets_flat, mask)
    IN  CrossEntropy(outputs_masked, targets_masked)

(* tensor.repeat(1, n, 1): the rows of dimension 1 tiled n times *)
RepeatDim1(t, n) ==
    [a \in DOMAIN t |->
        [r \in 1..(n * Len(t[a])) |-> t[a][((r - 1) % Len(t[a])) + 1]]]

(* tensor.view(d0, d1, d2): the elements in storage order, regrouped *)
View3(t, d0, d1, d2) ==
    LET flat == Flatten(Flatten(t))
    IN  [a \in 1..d0 |-> [r \in 1..d1 |-> [k \in 1..d2 |->
            flat[((a - 1) * d1 + (r - 1)) * d2 + k]]]]

(* GPTModel.create_mask *)
CreateMask_TileBatch(mask, nheads, current_seq_length) ==
    LET bsize == Len(mask)
        rows == [r \in 1..(bsize * nheads) |-> <<mask[((r - 1) % bsize) + 1]>>]
    IN  RepeatDim1(rows, current_seq_length)

CreateMask(mask, nheads, current_seq_length) ==
    LET bsize == Len(mask)
        unsqueezed == [b \in DOMAIN mask |-> <<mask[b]>>]
        per_head == RepeatDim1(unsqueezed, nheads)
        viewed == View3(per_head, bsize * nheads, 1, current_seq_length)
    IN  RepeatDim1(viewed, current_seq_length)

(* lines 318-325: the mask handed to each of the num_layers blocks *)
LayerMasks(mask, nheads, nlayers, current_seq_length) ==
    LET expanded == CreateMask(mask, nheads, current_seq_length)
    IN  [l \in 1..nlayers |-> expanded]

(* A batch holds sequences of at least one input/target pair *)
TrainInit ==
    /\ pc = "fetch"
    /\ sequence_length \in 2..MaxSeqLen
    /\ batch_size \in 1..MaxBatch
    /\ heads \in 1..MaxHeads
    /\ num_layers \in 1..MaxLayers
    /\ line = <<>>
    /\ item = NoItem
    /\ batch = <<>>
    /\ inputs = <<>>
    /\ targets = <<>>
    /\ masks = <<>>
    /\ loss = NoLoss
    /\ logged = ""
    /\ layer_masks = <<>>
    /\ GenIdle
    /\ LRIdle

(* the loader reads the next item of the batch *)
TrainGetItem ==
    /\ pc = "fetch"
    /\ Len(batch) < batch_size
    /\ \E ln \in BatchLines : batch' = Append(batch, GetItem(ln, sequence_length))
    /\ UNCHANGED <<pc, sequence_length, batch_size, genVars, lrVars, line, item,
                   inputs, targets, masks, loss, logged, heads, num_layers,
                   layer_masks>>

(* collate_fn *)
TrainCollate ==
    /\ pc = "fetch"
    /\ Len(batch) = batch_size
    /\ inputs' = PadSequence([b \in DOMAIN batch |-> batch[b].input])
    /\ targets' = PadSequence([b \in DOMAIN batch |-> batch[b].target])
    /\ masks' = PadSequence([b \in DOMAIN batch |-> batch[b].mask])
    /\ pc' = "batch"
    /\ UNCHANGED <<sequence_length, batch_size, genVars, lrVars, line, item,
                   batch, loss, logged, heads, num_layers, layer_masks>>

(* GPTModel.training_step *)
TrainingStep ==
    /\ pc = "batch"
    /\ forward_calls' = forward_calls + 1
    /\ forward_len' = Len(inputs[1])
    /\ layer_masks' = LayerMasks(masks, heads, num_layers, forward_len')
    /\ outputs' = Forward(inputs)
    /\ loss' = MaskedLoss(outputs', targets, masks)
    /\ logged' = "train_loss"
    /\ pc' = "stepped"
    /\ UNCHANGED <<sequence_length, batch_size, lrVars, line, item, batch,
                   inputs, targets, masks, heads, num_layers, input_text, input_ids, i, logits_row,
                   logits, top_p, sorted_indices, filtered_logits, next_token,
                   generated_text, error>>

(* GPTModel.validation_step *)
ValidationStep ==
    /\ pc = "batch"
    /\ forward_calls' = forward_calls + 1
    /\ forward_len' = Len(inputs[1])
    /\ layer_masks' = LayerMasks(masks, heads, num_layers, forward_len')
    /\ outputs' = Forward(inputs)
    /\ loss' = MaskedLoss(outputs', targets, masks)
    /\ logged' = "val_loss"
    /\ pc' = "stepped"
    /\ UNCHANGED <<sequence_length, batch_size, lrVars, line, item, batch,
                   inputs, targets, masks, heads, num_layers, input_text, input_ids, i, logits_row,
                   logits, top_p, sorted_indices, filtered_logits, next_token,
                   generated_text, error>>

TrainNext == TrainGetItem \/ TrainCollate \/ TrainingStep \/ ValidationStep

SpecTrain == TrainInit /\ [][TrainNext]_vars

----------------------------------------------------------------------------
(* GPTModel.configure_optimizers and WarmupCosineLR                         *)

(* torch.cos of an angle x given in 1/1000 rad, 0 <= x <= 1000, in 1/1000:  *)
(* 1 - x^2/2! + x^4/4! - x^6/6!                                             *)
CosMilli(x) ==
    LET x2 == (x * x) \div 1000
    IN  1000 - (x2 \div 2) + ((x2 * x2) \div 24000) - ((x2 * x2 * x2) \div 720000000)

(* lines 398-402: lr_scale in 1/1000 *)
LrScale(t, warmup, total) ==
    IF t < warmup
      THEN (t * 1000) \div warmup
      ELSE LET progress == ((t - warmup) * 1000) \div (total - warmup)
           IN  (1000 + CosMilli(progress)) \div 2

(* line 404, for the single parameter group *)
GetLr(t, warmup, total) == (base_lr * LrScale(t, warmup, total)) \div 1000 + min_lr

(* lines 373-377 *)
TotalSteps(dlen, bsize, epochs) ==
    LET num_batches_per_epoch ==
            (dlen \div bsize) + (IF dlen % bsize # 0 THEN 1 ELSE 0)
    IN  epochs * num_batches_per_epoch

(* line 378: int(0.1 * total_steps) *)
WarmupSteps(total) == total \div 10

(* The training file holds at least one line *)
LRInit ==
    /\ pc = "configure"
    /\ sequence_length = 1
    /\ batch_size \in 1..MaxBatch
    /\ dataset_length \in 1..MaxDataset
    /\ max_epochs \in 1..MaxEpochs
    /\ total_steps = 0
    /\ warmup_steps = 0
    /\ last_epoch = -1
    /\ lr = base_lr
    /\ GenIdle
    /\ TrainIdle

(* configure_optimizers; constructing the scheduler performs its initial    *)
(* step, which sets last_epoch to 0 and the rate to get_lr()                *)
ConfigureOptimizers ==
    /\ pc = "configure"
    /\ total_steps' = TotalSteps(dataset_length, batch_size, max_epochs)
    /\ warmup_steps' = WarmupSteps(total_steps')
    /\ last_epoch' = 0
    /\ lr' = GetLr(last_epoch', warmup_steps', total_steps')
    /\ pc' = "training"
    /\ UNCHANGED <<sequence_length, batch_size, genVars, trainVars,
                   dataset_length, max_epochs>>

(* scheduler.step(), once per optimization step of the run *)
SchedulerStep ==
    /\ pc = "training"
    /\ last_epoch < total_steps
    /\ last_epoch' = last_epoch + 1
    /\ lr' = GetLr(last_epoch', warmup_steps, total_steps)
    /\ UNCHANGED <<pc, sequence_length, batch_size, genVars, trainVars,
                   dataset_length, max_epochs, total_steps, warmup_steps>>

LRNext == ConfigureOptimizers \/ SchedulerStep

SpecLR == LRInit /\ [][LRNext]_vars

----------------------------------------------------------------------------
(* Properties of generate_text (checked under SpecGen)                      *)

(* C1: in every iteration the row that is scaled, filtered and sampled from *)
(* is the row of the single batch element at the last position n of the     *)
(* n-token sequence given to the forward pass.                              *)
C1_SamplesLastPosition ==
    (pc \in {"loop", "decode", "done"} /\ logits_row # <<>>)
        => logits_row = <<1, forward_len>>

(* C3 as stated: when the first sampled token is eot_token, generation ends *)
(* after one forward pass and returns prompt_tokens + [eot_token], decoded. *)
C3_ReturnsPromptPlusEot ==
    (pc = "done" /\ i = 0 /\ next_token = eot_token)
        => /\ forward_calls = 1
           /\ generated_text = Decode(Encode(input_text) \o <<eot_token>>)

(* C3 amended: when the first sampled token is eot_token, generation ends   *)
(* after one forward pass and returns the decoded prompt tokens; the eot    *)
(* token is not appended.                                                   *)
C3_ReturnsPromptOnly ==
    (pc = "done" /\ i = 0 /\ next_token = eot_token)
        => /\ forward_calls = 1
           /\ generated_text = Decode(Encode(input_text))

C3_Witness == pc = "done" /\ i = 0 /\ next_token = eot_token /\ forward_calls = 1

(* C4: the forward pass never runs on a sequence longer than the positional *)
(* table (sequence_length), for the prompt and for the grown sequence.      *)
C4_ForwardWithinCapacity == forward_len <= sequence_length

(* C7: a call with a non-empty tokenized prompt ends in DONE, it never ends *)
(* by an exception, and it makes at most sequence_length forward passes.    *)
C7_EndsInDone ==
    (Strip(input_text) # <<>> /\ Encode(input_text) # <<>>)
        => (pc # "raised" /\ forward_calls <= sequence_length)

(* C10: a prompt that is empty, whitespace-only or encodes to no token ends *)
(* the call with an invalid-input error before any forward pass, and no     *)
(* text is returned.                                                        *)
C10_InvalidPromptRejected ==
    ((Strip(input_text) = <<>> \/ Encode(input_text) = <<>>) /\ pc # "start")
        => /\ pc = "raised"
           /\ error \in {"ValueError: Input text is empty",
                         "ValueError: Input text could not be tokenized"}
           /\ forward_calls = 0
           /\ generated_text = <<>>

C10_Witness ==
    /\ pc = "raised"
    /\ input_text # <<>>
    /\ Strip(input_text) = <<>>
    /\ forward_calls = 0

----------------------------------------------------------------------------
(* Properties of top_p_filtering (checked under SpecTopP)                   *)
Kept == {t \in Vocab : filtered_logits[t] # filter_value}

Prefix(k) == {sorted_indices[j] : j \in 1..k}

Mass(j) == SumW(logits, sorted_indices, j)

NumTokens == Cardinality(Vocab)

(* C6 as stated: the kept tokens are exactly the smallest prefix, in        *)
(* descending order, whose cumulative mass reaches top_p (is >= top_p).     *)
C6_SmallestPrefixReaching ==
    pc = "topp_ret" =>
        LET k == Min({j \in 1..NumTokens :
                        Mass(j) * top_p[2] >= top_p[1] * Mass(NumTokens)})
        IN  Kept = Prefix(k)

(* C6 amended: the kept tokens are exactly the smallest prefix, in          *)
(* descending order, whose cumulative mass strictly exceeds top_p (all      *)
(* tokens when no prefix does); kept tokens keep their logit, the others    *)
(* are filter_value; top_p = 1 filters nothing and top_p = 0 keeps only the *)
(* highest-probability token.                                               *)
C6_SmallestPrefixExceeding ==
    pc = "topp_ret" =>
        LET k == Min({j \in 1..NumTokens :
                        Mass(j) * top_p[2] > top_p[1] * Mass(NumTokens)}
                     \cup {NumTokens})
        IN  /\ Kept = Prefix(k)
            /\ \A t \in Kept : filtered_logits[t] = logits[t]
            /\ top_p[1] = top_p[2] => Kept = Vocab
            /\ top_p[1] = 0 => Kept = {sorted_indices[1]}

(* a prefix whose mass equals top_p exactly, and a token filtered out *)
C6_Witness ==
    /\ pc = "topp_ret"
    /\ Mass(1) * top_p[2] = top_p[1] * Mass(NumTokens)
    /\ Cardinality(Kept) = 2

----------------------------------------------------------------------------
(* Properties of TokenizedTextDataset.__getitem__ (checked under SpecData)  *)

(* C8: with seq the line right-padded with padding_token or cut to its      *)
(* first S tokens, input = seq[0:S-1], target = seq[1:S] and                *)
(* mask[k] = 1 iff input[k] # padding_token, all of length S-1.             *)
C8_ShiftByOneSplit ==
    pc = "item" =>
        LET S == sequence_length
            seq == [k \in 1..S |-> IF k <= Len(line) THEN line[k] ELSE padding_token]
        IN  /\ Len(item.input) = S - 1
            /\ Len(item.target) = S - 1
            /\ Len(item.mask) = S - 1
            /\ \A k \in 1..(S - 1) :
                  /\ item.input[k] = seq[k]
                  /\ item.target[k] = seq[k + 1]
                  /\ item.mask[k] = (IF item.input[k] # padding_token THEN 1 ELSE 0)

(* a line longer than S that holds a padding token and content tokens *)
C8_Witness ==
    /\ pc = "item"
    /\ sequence_length >= 2
    /\ Len(line) > sequence_length
    /\ item.mask[1] = 1
    /\ item.target[1] # item.input[1]

----------------------------------------------------------------------------
(* Properties of masked_loss / training_step (checked under SpecTrain)      *)
Selected ==
    {bs \in (DOMAIN masks) \X (1..Len(masks[1])) : masks[bs[1]][bs[2]] = 1}

(* C2: the cross-entropy is taken over exactly the (b, s) with              *)
(* mask[b][s] = 1, each pairing the logit row of batch element b at         *)
(* position s with targets[b][s].                                           *)
C2_LossPairsRowWithItsTarget ==
    pc = "stepped" =>
        /\ Len(loss.pairs) = Cardinality(Selected)
        /\ {loss.pairs[k] : k \in DOMAIN loss.pairs}
             = {<<bs, targets[bs[1]][bs[2]]>> : bs \in Selected}

(* C9: when the mask selects no position, masked_loss raises instead of     *)
(* returning a NaN loss to the step.                                        *)
C9_EmptySelectionRaises ==
    (pc = "stepped" /\ Selected = {})
        => (error # "" /\ loss.value # "nan")

----------------------------------------------------------------------------
(* Properties of WarmupCosineLR (checked under SpecLR)                      *)

(* C5: the rate is min_rate at t = 0, base_rate + min_rate at               *)
(* t = warmup_steps and min_rate at t = total_steps.  With warmup_steps = 0 *)
(* the first two clauses name the same step, and the warmup boundary is the *)
(* one required there.                                                      *)
C5_RateAtBoundaries ==
    pc = "training" =>
        /\ (last_epoch = 0 /\ warmup_steps > 0) => lr = min_lr
        /\ last_epoch = warmup_steps => lr = base_lr + min_lr
        /\ last_epoch = total_steps => lr = min_lr

----------------------------------------------------------------------------
(* Properties of create_mask / forward (checked under SpecTrain)            *)

(* C11: every layer receives the same M of shape (batch*H, seq_len,         *)
(* seq_len) with M[b*H + h][q][k] = m[b][k]: the rows of a (batch, head)    *)
(* pair come from that batch element's mask and do not depend on q.         *)
C11_KeyMaskPerBatchAndHead ==
    pc = "stepped" =>
        LET B == Len(masks)
            S == Len(masks[1])
        IN  /\ Len(layer_masks) = num_layers
            /\ \A l \in 1..num_layers :
                  /\ Len(layer_masks[l]) = B * heads
                  /\ \A b \in 1..B : \A h \in 1..heads :
                        LET rows == layer_masks[l][(b - 1) * heads + h]
                        IN  /\ Len(rows) = S
                            /\ \A q \in 1..S : rows[q] = masks[b]

(* two batch elements with different masks, several heads and layers *)
C11_Witness ==
    /\ pc = "stepped"
    /\ batch_size >= 2
    /\ heads >= 2
    /\ num_layers >= 2
    /\ masks[1] # masks[2]

(* C12: no position that the mask selects for the loss has padding_token as *)
(* its target.                                                              *)
C12_NoPaddingTargetInLoss ==
    pc = "stepped" =>
        \A b \in DOMAIN masks : \A k \in DOMAIN masks[b] :
            masks[b][k] = 1 => targets[b][k] # padding_token

====
